---------------------------- MODULE Spec2Model ----------------------------
(***************************************************************************)
(* A model of VBPLCrawler.parse (src/app/utils/crawl.py): the retrieval    *)
(* guards, the write of content.txt and the segmentation cascade built     *)
(* from title_regex, chuong_regex, muc_regex and dieu_regex.               *)
(*                                                                         *)
(* A text is a sequence of tokens.  A token stands for a piece of text no  *)
(* regex of the source can split:                                          *)
(*   "C", "huong" = "C", "hương": the keyword Chương is the two in a row   *)
(*   "M", "uc" = "M", "ục": the keyword Mục is the two in a row            *)
(*   "Dieu" = "Điều" (its first letter is not the D of [MDCLXVI])          *)
(*   "I", and "C" and "M" again = the letters of [MDCLXVI]                 *)
(*   "1" = a digit of [0-9]                                                *)
(*   "." = a period   "\\" = a backslash   "\n" = a line break             *)
(*   " " = a blank   "a", "b" = two letters of running text                *)
(*   "*" = an asterisk   "-" = a hyphen (both in [#*_\[\]\(\)-])           *)
(* The regexes are computed on tokens the way Python's re computes them on *)
(* characters: leftmost match, greedy and lazy quantifiers, lookahead.     *)
(***************************************************************************)
EXTENDS Integers, Sequences, FiniteSets, TLC

VARIABLES
    npieces,   \* how many pieces the input text is made of so far
    page,      \* what crawl_toanvan and soup.find give: "Empty", "NoContainer", "Container"
    content,   \* the text of div.toanvancontent (get_text), a sequence of tokens
    pc,        \* "input", then "returned_empty" | "raised", or "opened", "written",
               \* "segmented" and then "returned" | "raised"
    data,      \* parse's local `data`: the top-level nodes
    splits,    \* per titled block, parse's locals: the body, title_match, the title, the remainder
    file,      \* what content.txt holds: a sequence of bytes
    inv,       \* the concurrent invocations (SpecConc): their document, position and result
    writers    \* SpecConc: per invocation, the places outside its own locals it has written

vars == <<npieces, page, content, pc, data, splits, file, inv, writers>>

----------------------------------------------------------------------------
(* Bounds of the model *)

\* how many pieces an input text is made of, at most
MaxPieces == 4

\* how many parse invocations run concurrently in SpecConc
NumInvocations == 2

----------------------------------------------------------------------------
(* Characters and small helpers *)

\* what \s matches, among the tokens
WS == {" ", "\n"}

\* what [MDCLXVI] matches, among the tokens: the initials of Chương and Mục are in the class
ROMAN == {"I", "C", "M"}

\* the keywords of the markers, as tokens
Chuong == <<"C", "huong">>
Muc == <<"M", "uc">>
Dieu == <<"Dieu">>

\* the class [#*_\[\]\(\)-] of the title cleaning, among the tokens
DECOR == {"*", "-"}

Min(S) == CHOOSE x \in S : \A y \in S : x <= y

\* t[i], or "EOT" outside the text
At(t, i) == IF i >= 1 /\ i <= Len(t) THEN t[i] ELSE "EOT"

\* the first position from i on that does not hold c (greedy c*)
SkipTok(t, i, c) == Min({j \in i..(Len(t) + 1) : At(t, j) # c})

\* the first position from i on that holds no whitespace (greedy \s*)
SkipWs(t, i) == Min({j \in i..(Len(t) + 1) : At(t, j) \notin WS})

\* the first position from i on that holds no letter of [MDCLXVI] (greedy [MDCLXVI]*)
SkipRoman(t, i) == Min({j \in i..(Len(t) + 1) : At(t, j) \notin ROMAN})

\* the keyword kw is at position m
KwAt(t, m, kw) == \A i \in 1..Len(kw) : At(t, m + i - 1) = kw[i]

\* the least position of S, Len(t)+1 when S is empty: where a lazy [\s\S]*? stops, at the
\* first position its lookahead holds or else at \Z; where findall's next match starts
FirstIn(t, S) == IF S = {} THEN Len(t) + 1 ELSE Min(S)

\* the lookahead \n+\s*KW\s*NUM+ at position k, NUM a class of tokens
LookMarker(t, k, kw, num) ==
    /\ At(t, k) = "\n"
    /\ KwAt(t, SkipWs(t, k), kw)
    /\ At(t, SkipWs(t, SkipWs(t, k) + Len(kw))) \in num

\* str.strip()
Strip(x) ==
    LET keep == {i \in 1..Len(x) : x[i] \notin WS}
    IN IF keep = {} THEN <<>>
       ELSE SubSeq(x, Min(keep), CHOOSE i \in keep : \A j \in keep : j <= i)

\* the tokens of x other than those of the set drop, in order
RECURSIVE Without(_, _)
Without(x, drop) ==
    IF x = <<>> THEN <<>>
    ELSE IF Head(x) \in drop THEN Without(Tail(x), drop)
    ELSE <<Head(x)>> \o Without(Tail(x), drop)

\* re.sub(r'\s+', ' ', x)
RECURSIVE CollapseWs(_)
CollapseWs(x) ==
    IF x = <<>> THEN <<>>
    ELSE IF Head(x) \in WS THEN <<" ">> \o CollapseWs(SubSeq(x, SkipWs(x, 1), Len(x)))
    ELSE <<Head(x)>> \o CollapseWs(Tail(x))

\* str.replace(sub, ""): every occurrence, left to right, not overlapping; none for an empty sub
RECURSIVE Replace(_, _)
Replace(x, sub) ==
    IF sub = <<>> \/ Len(x) < Len(sub) THEN x
    ELSE IF SubSeq(x, 1, Len(sub)) = sub THEN Replace(SubSeq(x, Len(sub) + 1, Len(x)), sub)
    ELSE <<Head(x)>> \o Replace(Tail(x), sub)

----------------------------------------------------------------------------
(* The title of a chapter or section block *)

\* the lookahead of title_regex: (\n+\s*Điều\s*[0-9]+)|(\n+\s*Mục\s*[0-9]+)
TitleLook(t, k) == LookMarker(t, k, Dieu, {"1"}) \/ LookMarker(t, k, Muc, {"1"})

\* title_regex.search(body): the end of group(0), which starts at 1 and holds at least one character; 0 for no match
TitleEnd(body) ==
    LET e == FirstIn(body, {x \in 2..Len(body) : TitleLook(body, x)})
    IN IF e <= Len(body) THEN e - 1 ELSE 0

\* a cleaning that collapses the whitespace before it takes the decorative characters out
CleanCollapseFirst(s) == Strip(Without(CollapseWs(s), DECOR))

\* the cleaning of a title: the decorative characters out, whitespace runs to one blank, strip
Clean(s) == Strip(CollapseWs(Without(s, DECOR)))

\* the title and the remainder of a block, as the three copies of the split in parse compute them
SplitTitle(body) ==
    LET k == TitleEnd(body)
        title == Clean(SubSeq(body, 1, k))
    IN IF k > 0
       THEN [body |-> body, title_match |-> TRUE, raw |-> SubSeq(body, 1, k),
             title |-> title, remainder |-> Strip(Replace(body, title))]
       ELSE [body |-> body, title_match |-> FALSE, raw |-> <<>>,
             title |-> <<>>, remainder |-> Strip(body)]

----------------------------------------------------------------------------
(* The boundary matchers: findall of chuong_regex, muc_regex, dieu_regex *)

\* a chapter marker starts at m: Chương\s*[MDCLXVI]+
ChuongAt(t, m) == KwAt(t, m, Chuong) /\ At(t, SkipWs(t, m + Len(Chuong))) \in ROMAN

\* the lookahead of chuong_regex: \n+\s*Chương\s*([MDCLXVI]+)
ChuongLook(t, k) == LookMarker(t, k, Chuong, ROMAN)

\* chuong_regex.findall from position p on: per match, group 1 (the marker) and group 3 (the body)
RECURSIVE ChuongFrom(_, _)
ChuongFrom(t, p) ==
    LET m == FirstIn(t, {x \in p..Len(t) : ChuongAt(t, x)})
        r == SkipRoman(t, SkipWs(t, m + Len(Chuong)))
        b == SkipWs(t, r)
        e == FirstIn(t, {x \in b..Len(t) : ChuongLook(t, x)})
    IN IF m > Len(t) THEN <<>>
       ELSE <<[marker |-> SubSeq(t, m, r - 1), body |-> SubSeq(t, b, e - 1),
               from |-> m, to |-> e - 1]>> \o ChuongFrom(t, e)

chuong_findall(t) == ChuongFrom(t, 1)

\* a section block starts at m: Mục\s*[0-9]+ and one character of body at least
MucAt(t, m) ==
    LET d == SkipWs(t, m + Len(Muc))
        r == SkipTok(t, d, "1")
    IN /\ KwAt(t, m, Muc)
       /\ At(t, d) = "1"
       /\ (r <= Len(t) \/ r - d >= 2)

\* the lookahead of muc_regex: (\n+\s*Mục\s*[0-9]+)|(\n+\s*Chương\s*([MDCLXVI]+))
MucLook(t, k) == LookMarker(t, k, Muc, {"1"}) \/ LookMarker(t, k, Chuong, ROMAN)

\* muc_regex.findall from position p on: per match, group 1 (the marker) and group 2 (the body).
\* The digits give their last one back to the body when the text ends with them.
RECURSIVE MucFrom(_, _)
MucFrom(t, p) ==
    LET m == FirstIn(t, {x \in p..Len(t) : MucAt(t, x)})
        r0 == SkipTok(t, SkipWs(t, m + Len(Muc)), "1")
        r == IF r0 <= Len(t) THEN r0 ELSE r0 - 1
        e == FirstIn(t, {x \in (r + 1)..Len(t) : MucLook(t, x)})
    IN IF m > Len(t) THEN <<>>
       ELSE <<[marker |-> SubSeq(t, m, r - 1), body |-> SubSeq(t, r, e - 1),
               from |-> m, to |-> e - 1]>> \o MucFrom(t, e)

muc_findall(t) == MucFrom(t, 1)

\* a separator that may be missing (\.* for \.+)
DieuSeparatorOptional(t, q) == TRUE

\* the separator of dieu_regex after the number: \.+ (one period at least)
DieuSeparator(t, q) == At(t, q) = "."

\* where the periods of an article marker at m start (after Điều\s*[0-9]*\\*), 0 when it has none
DieuDots(t, m) ==
    LET q == SkipTok(t, SkipTok(t, SkipWs(t, m + 1), "1"), "\\")
    IN IF At(t, m) = "Dieu" /\ DieuSeparator(t, q) THEN q ELSE 0

\* an article block starts at m: Điều\s*[0-9]*\\*\.+ and one character of body at least
DieuAt(t, m) ==
    LET q == DieuDots(t, m)
        r == SkipTok(t, q, ".")
    IN q > 0 /\ (r <= Len(t) \/ r - q >= 2)

\* the lookahead of dieu_regex: \n+\s*Điều\s*[0-9]+\\*\.
DieuLook(t, k) ==
    LET j == SkipWs(t, k)
        d == SkipWs(t, j + 1)
    IN /\ At(t, k) = "\n"
       /\ At(t, j) = "Dieu"
       /\ At(t, d) = "1"
       /\ At(t, SkipTok(t, SkipTok(t, d, "1"), "\\")) = "."

\* dieu_regex.findall from position p on: per match, group 1 (marker and body together).
\* The periods give their last one back to the body when the text ends with them.
RECURSIVE DieuFrom(_, _)
DieuFrom(t, p) ==
    LET m == FirstIn(t, {x \in p..Len(t) : DieuAt(t, x)})
        r0 == SkipTok(t, DieuDots(t, m), ".")
        r == IF r0 <= Len(t) THEN r0 ELSE r0 - 1
        e == FirstIn(t, {x \in (r + 1)..Len(t) : DieuLook(t, x)})
    IN IF m > Len(t) THEN <<>>
       ELSE <<[text |-> SubSeq(t, m, e - 1), from |-> m, to |-> e - 1]>> \o DieuFrom(t, e)

dieu_findall(t) == DieuFrom(t, 1)

----------------------------------------------------------------------------
(* The nodes and the cascade *)

\* a content cleaned as the titles are, of every decorative character
ArticleContentNoDecor(dieu) == Strip(Without(dieu, DECOR))

\* dieu.replace('*', '').strip()
ArticleContent(dieu) == Strip(Without(dieu, {"*"}))

\* dieu_data
ArticleNode(dieu) ==
    [type |-> "ARTICLE", content |-> ArticleContent(dieu.text)]

\* the ARTICLE nodes of a text
ArticleNodes(t) ==
    LET dieu_matches == dieu_findall(t)
    IN [i \in 1..Len(dieu_matches) |-> ArticleNode(dieu_matches[i])]

\* muc_data: the section's title split off, its remainder matched for articles
SectionNode(muc) ==
    LET s == SplitTitle(muc.body)
    IN [type |-> "SECTION", id_text |-> Strip(muc.marker), title |-> s.title,
        children |-> ArticleNodes(s.remainder)]

\* the SECTION nodes of the section matches
SectionNodes(muc_matches) ==
    [i \in 1..Len(muc_matches) |-> SectionNode(muc_matches[i])]

\* the children of a chapter: sections when the remainder has any, its articles otherwise
ChapterChildren(chuong_content) ==
    LET muc_matches == muc_findall(chuong_content)
    IN IF muc_matches # <<>> THEN SectionNodes(muc_matches)
       ELSE ArticleNodes(chuong_content)

\* chuong_data
ChapterNode(chuong) ==
    LET s == SplitTitle(chuong.body)
    IN [type |-> "CHAPTER", id_text |-> Strip(chuong.marker), title |-> s.title,
        children |-> ChapterChildren(s.remainder)]

\* the level the cascade stops at
CascadeLevel(t) ==
    IF chuong_findall(t) # <<>> THEN "CHAPTER"
    ELSE IF muc_findall(t) # <<>> THEN "SECTION"
    ELSE "ARTICLE"

\* the cascade: chapters, else sections, else flat articles
Cascade(t) ==
    LET chuong_matches == chuong_findall(t)
        muc_matches == muc_findall(t)
    IN IF chuong_matches # <<>>
       THEN [i \in 1..Len(chuong_matches) |-> ChapterNode(chuong_matches[i])]
       ELSE IF muc_matches # <<>> THEN SectionNodes(muc_matches)
       ELSE ArticleNodes(t)

\* the title splits of the section matches, in order; `at` is the node's place in the tree
SectionSplits(muc_matches, path) ==
    [i \in 1..Len(muc_matches) |->
        [level |-> "SECTION", at |-> path \o <<i>>] @@ SplitTitle(muc_matches[i].body)]

\* flattening of a sequence of sequences
RECURSIVE Flatten(_)
Flatten(ss) == IF ss = <<>> THEN <<>> ELSE Head(ss) \o Flatten(Tail(ss))

\* every title split parse makes on a text, in the order it makes them
TitleSplits(t) ==
    LET chuong_matches == chuong_findall(t)
    IN IF chuong_matches # <<>>
       THEN Flatten([i \in 1..Len(chuong_matches) |->
                LET s == SplitTitle(chuong_matches[i].body)
                IN <<[level |-> "CHAPTER", at |-> <<i>>] @@ s>>
                       \o SectionSplits(muc_findall(s.remainder), <<i>>)])
       ELSE SectionSplits(muc_findall(t), <<>>)


----------------------------------------------------------------------------
(* The input texts *)

\* the pieces an input text is made of: "\nChương I", "\nChương I a" (a chapter with a title
\* word), "\nChương" (the chapter keyword without its numeral), "\nMục 1", "\nĐiều 1. b" (an article with its body), "\nĐiều 1" (an article marker
\* without its period), " a", "*", "-", ".", "\n"
Pieces ==
    { <<"\n", "C", "huong", " ", "I">>,
      <<"\n", "C", "huong", " ", "I", " ", "a">>,
      <<"\n", "C", "huong">>,
      <<"\n", "M", "uc", " ", "1">>,
      <<"\n", "Dieu", " ", "1", ".", " ", "b">>,
      <<"\n", "Dieu", " ", "1">>,
      <<" ", "a">>,
      <<"*">>,
      <<"-">>,
      <<".">>,
      <<"\n">> }

----------------------------------------------------------------------------
(* One parse invocation *)

Init ==
    /\ npieces = 0
    /\ page \in {"Empty", "NoContainer", "Container"}
    /\ content = <<>>
    /\ pc = "input"
    /\ data = <<>>
    /\ splits = <<>>
    /\ file = <<>>
    /\ inv = <<>>
    /\ writers = <<>>

\* the page's container gets one more piece of text (the input grows before parse runs)
AddPiece(p) ==
    /\ pc = "input"
    /\ page = "Container"
    /\ npieces < MaxPieces
    /\ npieces' = npieces + 1
    /\ content' = content \o p
    /\ UNCHANGED <<page, pc, data, splits, file, inv, writers>>

\* parse when crawl_toanvan returned "": `if not html_content: return {}`
ParseNoPage ==
    /\ pc = "input"
    /\ page = "Empty"
    /\ pc' = "returned_empty"
    /\ UNCHANGED <<npieces, page, content, data, splits, file, inv, writers>>

\* parse when the page has no div.toanvancontent: soup.find gives None and
\* None.get_text raises AttributeError, which nothing in parse catches
ParseNoContainer ==
    /\ pc = "input"
    /\ page = "NoContainer"
    /\ pc' = "raised"
    /\ UNCHANGED <<npieces, page, content, data, splits, file, inv, writers>>

\* parse when the container's text is empty: `if not content: return {}`
ParseNoContent ==
    /\ pc = "input"
    /\ page = "Container"
    /\ content = <<>>
    /\ pc' = "returned_empty"
    /\ UNCHANGED <<npieces, page, content, data, splits, file, inv, writers>>

\* parse on a text: content.txt is written, the cascade builds `data`
\* the UTF-8 bytes of a token
Utf8(tok) ==
    CASE tok = "C" -> <<67>>
      [] tok = "huong" -> <<104, 198, 176, 198, 161, 110, 103>>
      [] tok = "M" -> <<77>>
      [] tok = "uc" -> <<225, 187, 165, 99>>
      [] tok = "Dieu" -> <<196, 144, 105, 225, 187, 129, 117>>
      [] tok = "I" -> <<73>>
      [] tok = "1" -> <<49>>
      [] tok = "." -> <<46>>
      [] tok = "\\" -> <<92>>
      [] tok = "\n" -> <<10>>
      [] tok = " " -> <<32>>
      [] tok = "a" -> <<97>>
      [] tok = "b" -> <<98>>
      [] tok = "*" -> <<42>>
      [] tok = "-" -> <<45>>

\* what f.write(content) puts into a file opened with encoding='utf-8'
RECURSIVE Encode(_)
Encode(text) == IF text = <<>> THEN <<>> ELSE Utf8(Head(text)) \o Encode(Tail(text))

\* what the page holds for extract_info besides the container: no document id in its header
\* (or no luocdo page fetched for it), a luocdo page whose first relation item carries its
\* jTips link, or a luocdo page whose first relation item is plain text
Luocdo == {"NoDocumentId", "Linked", "PlainText"}

\* extract_info(soup): it reads item_id for every relation item with text, and has assigned
\* it only from an item's jTips link
extract_info(luocdo) == IF luocdo = "PlainText" THEN "raised" ELSE "returned"

\* a file after a write of bytes at offset 0 through a handle opened before
Overwritten(old, text) == text \o SubSeq(old, Len(text) + 1, Len(old))

\* the container has a text: open('content.txt', 'w') truncates the file
ParseOpen ==
    /\ pc = "input"
    /\ page = "Container"
    /\ content # <<>>
    /\ file' = <<>>
    /\ pc' = "opened"
    /\ UNCHANGED <<npieces, page, content, data, splits, inv, writers>>

\* f.write(content) and the close that ends the with block: the bytes land at offset 0
ParseWrite ==
    /\ pc = "opened"
    /\ file' = Overwritten(file, Encode(content))
    /\ pc' = "written"
    /\ UNCHANGED <<npieces, page, content, data, splits, inv, writers>>

\* the cascade: parse's local data and the title splits are assigned; parse has not returned
ParseContent ==
    /\ pc = "written"
    /\ data' = Cascade(content)
    /\ splits' = TitleSplits(content)
    /\ pc' = "segmented"
    /\ UNCHANGED <<npieces, page, content, file, inv, writers>>

\* extract_info(soup), which waits for the luocdo page when the page names a document id,
\* and the end of the call: parse returns the result built around data, or the exception
\* of extract_info leaves it
ParseInfo ==
    /\ pc = "segmented"
    /\ \E luocdo \in Luocdo :
          pc' = IF extract_info(luocdo) = "raised" THEN "raised" ELSE "returned"
    /\ UNCHANGED <<npieces, page, content, data, splits, file, inv, writers>>

Next ==
    \/ \E p \in Pieces : AddPiece(p)
    \/ ParseNoPage
    \/ ParseNoContainer
    \/ ParseNoContent
    \/ ParseOpen
    \/ ParseWrite
    \/ ParseContent
    \/ ParseInfo

Spec == Init /\ [][Next]_vars

----------------------------------------------------------------------------
(* Concurrent parse invocations: each on its own page, all in one working directory *)

\* the invocations
Invocations == 1..NumInvocations

\* the texts of the pages parsed concurrently: an article after any one piece
Docs == {p \o <<"\n", "Dieu", " ", "1", ".", " ", "b">> : p \in Pieces}

InitConc ==
    /\ npieces = 0
    /\ page = "Container"
    /\ content = <<>>
    /\ pc = "input"
    /\ data = <<>>
    /\ splits = <<>>
    /\ file = <<>>
    /\ inv \in [Invocations -> {[content |-> d, pc |-> "start", data |-> <<>>] : d \in Docs}]
    /\ writers = [i \in Invocations |-> {}]

\* open('content.txt', 'w'): the file is truncated
OpenFile(i) ==
    /\ inv[i].pc = "start"
    /\ file' = <<>>
    /\ writers' = [writers EXCEPT ![i] = @ \cup {"content.txt"}]
    /\ inv' = [inv EXCEPT ![i].pc = "opened"]
    /\ UNCHANGED <<npieces, page, content, pc, data, splits>>

\* f.write(content) and the close that ends the with block: the text lands at offset 0
WriteFile(i) ==
    /\ inv[i].pc = "opened"
    /\ file' = Overwritten(file, Encode(inv[i].content))
    /\ inv' = [inv EXCEPT ![i].pc = "written"]
    /\ UNCHANGED <<npieces, page, content, pc, data, splits, writers>>

\* the cascade, on the invocation's own locals; the call has not ended
Segment(i) ==
    /\ inv[i].pc = "written"
    /\ inv' = [inv EXCEPT ![i].pc = "segmented", ![i].data = Cascade(inv[i].content)]
    /\ UNCHANGED <<npieces, page, content, pc, data, splits, file, writers>>

\* extract_info on the invocation's page, with its wait for the luocdo page, and the end
\* of the call
Finish(i) ==
    /\ inv[i].pc = "segmented"
    /\ \E luocdo \in Luocdo :
          inv' = [inv EXCEPT ![i].pc = IF extract_info(luocdo) = "raised"
                                       THEN "raised" ELSE "returned"]
    /\ UNCHANGED <<npieces, page, content, pc, data, splits, file, writers>>

NextConc == \E i \in Invocations : OpenFile(i) \/ WriteFile(i) \/ Segment(i) \/ Finish(i)

SpecConc == InitConc /\ [][NextConc]_vars

----------------------------------------------------------------------------
(* What the properties speak of: markers in a text, kinds in a tree *)

\* a marker occurs at m: the keyword, whitespace, a character of the number's class
MarkerAt(t, m, kw, num) == KwAt(t, m, kw) /\ At(t, SkipWs(t, m + Len(kw))) \in num

\* some chapter marker (Chương, a roman numeral) occurs in t
ChapterMarkerIn(t) == \E m \in 1..Len(t) : MarkerAt(t, m, Chuong, ROMAN)

\* some section marker (Mục, digits) occurs in t
SectionMarkerIn(t) == \E m \in 1..Len(t) : MarkerAt(t, m, Muc, {"1"})

\* some section marker occurs in t with one character at least after its first digit
SectionMarkerWithBodyIn(t) ==
    \E m \in 1..Len(t) : MarkerAt(t, m, Muc, {"1"}) /\ SkipWs(t, m + Len(Muc)) < Len(t)

\* every node of a sequence of nodes is of the kind
AllOfKind(nodes, kind) == \A i \in DOMAIN nodes : nodes[i].type = kind

----------------------------------------------------------------------------
(* C1 *)

\* the highest level of which a marker occurs in the text
HighestMarkerLevel(t) ==
    IF ChapterMarkerIn(t) THEN "CHAPTER"
    ELSE IF SectionMarkerIn(t) THEN "SECTION"
    ELSE "ARTICLE"

\* C1 as stated: the top-level nodes are all of the highest level of which the text holds
\* a marker: CHAPTER, else SECTION, else ARTICLE.
C1_TopLevelKindOfHighestMarker ==
    pc = "returned" => AllOfKind(data, HighestMarkerLevel(content))

----------------------------------------------------------------------------
(* C2 *)

\* the title split parse made for the node at a place of the tree
SplitAt(path) == CHOOSE s \in {splits[k] : k \in DOMAIN splits} : s.at = path

\* the children of the sections among the nodes are articles
SectionsHoldArticles(nodes) ==
    \A j \in DOMAIN nodes :
        nodes[j].type = "SECTION" => AllOfKind(nodes[j].children, "ARTICLE")

\* C2 as stated, for a section marker that something follows: the children of a CHAPTER
\* node are SECTION nodes when its span holds a section marker and ARTICLE nodes when it
\* holds none; the children of a SECTION node are ARTICLE nodes.
C2_ChildrenByMarkerInSpan ==
    pc = "returned" =>
        /\ SectionsHoldArticles(data)
        /\ \A i \in DOMAIN data :
              data[i].type = "CHAPTER" =>
                  /\ SectionsHoldArticles(data[i].children)
                  /\ SectionMarkerWithBodyIn(SplitAt(<<i>>).body)
                        => AllOfKind(data[i].children, "SECTION")
                  /\ ~SectionMarkerIn(SplitAt(<<i>>).body)
                        => AllOfKind(data[i].children, "ARTICLE")

----------------------------------------------------------------------------
(* C3 *)

\* how many ARTICLE nodes a sequence of ARTICLE and SECTION nodes holds, the sections'
\* children counted
RECURSIVE ArticleCount(_)
ArticleCount(nodes) ==
    IF nodes = <<>> THEN 0
    ELSE (IF Head(nodes).type = "ARTICLE" THEN 1 ELSE Len(Head(nodes).children))
         + ArticleCount(Tail(nodes))

\* a title took a marker keyword in
TitleHoldsMarker(s) == \E k \in DOMAIN s.raw : s.raw[k] \in {"huong", "uc", "Dieu"}

\* the title's text occurs in the block's body more than once
TitleRecurs(s) == Len(s.body) - Len(Replace(s.body, s.title)) > Len(s.title)

\* C3 as stated, for the chapters none of whose titles took a marker in or occurs twice:
\* every article block of the chapter's remainder is one ARTICLE node of the chapter's subtree.
C3_EveryArticleBlockIsANode ==
    pc = "returned" =>
        \A i \in DOMAIN data :
            ( /\ data[i].type = "CHAPTER"
              /\ \A k \in DOMAIN splits : splits[k].at[1] = i =>
                        ~TitleHoldsMarker(splits[k]) /\ ~TitleRecurs(splits[k]) )
            => ArticleCount(data[i].children) = Len(dieu_findall(SplitAt(<<i>>).remainder))

----------------------------------------------------------------------------
(* C4 *)

\* the text holds no chapter marker and no section marker
FlatArticleText(t) == ~ChapterMarkerIn(t) /\ ~SectionMarkerIn(t)

\* the contents of a sequence of ARTICLE nodes
Contents(nodes) == [i \in DOMAIN nodes |-> nodes[i].content]

\* t is the contents cs in order, with whitespace only before, between and after them
RECURSIVE Reproduces(_, _)
Reproduces(t, cs) ==
    LET u == SubSeq(t, SkipWs(t, 1), Len(t))
    IN IF cs = <<>> THEN u = <<>>
       ELSE /\ Len(u) >= Len(Head(cs))
            /\ SubSeq(u, 1, Len(Head(cs))) = Head(cs)
            /\ Reproduces(SubSeq(u, Len(Head(cs)) + 1, Len(u)), Tail(cs))

\* the stretch of t from the start of its first article block to the end of its last one
ArticleStretch(t) ==
    LET dieu_matches == dieu_findall(t)
    IN IF dieu_matches = <<>> THEN <<>>
       ELSE SubSeq(t, dieu_matches[1].from, dieu_matches[Len(dieu_matches)].to)

\* the article blocks cover t but for whitespace around them
ArticlesCover(t) == Strip(ArticleStretch(t)) = Strip(t)

\* C4 as stated, for a flat-article text that its article blocks cover: the contents of the
\* ARTICLE nodes, whitespace put back between them, are the text, trimmed.
C4_ContentsReproduceText ==
    (pc = "returned" /\ FlatArticleText(content) /\ ArticlesCover(content))
        => Reproduces(content, Contents(data))

\* C4, amended: for a flat-article text, the contents of the ARTICLE nodes, whitespace put
\* back between them, are the text from its first article block to the end of its last one
\* with every asterisk taken out, and with nothing else taken out or altered.
C4_ContentsReproduceTextWithoutAsterisks ==
    (pc = "returned" /\ FlatArticleText(content))
        => /\ AllOfKind(data, "ARTICLE")
           /\ Reproduces(Without(ArticleStretch(content), {"*"}), Contents(data))

\* a flat-article text of two articles at least, with an asterisk and a hyphen inside, has been parsed
C4_Witness ==
    /\ pc = "returned"
    /\ FlatArticleText(content)
    /\ Len(data) >= 2
    /\ \E k \in DOMAIN ArticleStretch(content) : ArticleStretch(content)[k] = "*"
    /\ \E i \in DOMAIN data : \E k \in DOMAIN data[i].content : data[i].content[k] = "-"

----------------------------------------------------------------------------
(* C5 *)

\* C5 as stated: parse on an empty page, on a page without the container or on an empty
\* container text returns the empty result, and does not raise.
C5_AbsentInputReturnsEmpty ==
    (pc # "input" /\ (page # "Container" \/ content = <<>>)) => pc = "returned_empty"

----------------------------------------------------------------------------
(* C6 *)

\* C6 as stated: no two invocations write the same place, each invocation returns what it
\* returns alone, and once it has written content.txt and until another invocation that
\* started later writes, the file is what it leaves alone: its own text.
C6_NoSharedState ==
    /\ \A i, j \in Invocations : i # j => writers[i] \cap writers[j] = {}
    /\ \A i \in Invocations :
          inv[i].pc = "returned" => inv[i].data = Cascade(inv[i].content)
    /\ (\A i \in Invocations : inv[i].pc \in {"returned", "raised"})
          => \E i \in Invocations : file = Encode(inv[i].content)

----------------------------------------------------------------------------
(* C7 *)

\* the words of a text: its tokens but the whitespace and the decorative characters
Words(x) == Without(x, WS \cup DECOR)

\* the body of a split after the span title_regex matched
AfterTitle(s) == SubSeq(s.body, Len(s.raw) + 1, Len(s.body))

\* C7 as stated, for the blocks whose title does not occur twice: where a title was
\* found, the words handed down are the words after the title's span: none of the
\* title's words is handed down.
C7_TitleNotHandedDown ==
    pc = "returned" =>
        \A k \in DOMAIN splits :
            (splits[k].title_match /\ ~TitleRecurs(splits[k]))
                => Words(splits[k].remainder) = Words(AfterTitle(splits[k]))

----------------------------------------------------------------------------
(* C8 *)

\* C8: cleaning a cleaned string changes nothing: of the whole text, and of every title.
C8_CleanIdempotent ==
    /\ Clean(Clean(content)) = Clean(content)
    /\ \A k \in DOMAIN splits :
          /\ Clean(splits[k].title) = splits[k].title
          /\ Clean(Clean(splits[k].body)) = Clean(splits[k].body)

\* a title whose raw text holds a decorative character and whitespace has been cleaned to
\* something else, not empty
C8_Witness ==
    /\ pc = "returned"
    /\ \E k \in DOMAIN splits :
          /\ splits[k].title # <<>>
          /\ splits[k].title # splits[k].raw
          /\ \E i \in DOMAIN splits[k].raw : splits[k].raw[i] \in DECOR
          /\ \E i \in DOMAIN splits[k].raw : splits[k].raw[i] \in WS
          /\ Clean(splits[k].raw) = splits[k].title

----------------------------------------------------------------------------
(* C9 *)

\* x with the first occurrence of sub taken out
RECURSIVE ReplaceFirst(_, _)
ReplaceFirst(x, sub) ==
    IF sub = <<>> \/ Len(x) < Len(sub) THEN x
    ELSE IF SubSeq(x, 1, Len(sub)) = sub THEN SubSeq(x, Len(sub) + 1, Len(x))
    ELSE <<Head(x)>> \o ReplaceFirst(Tail(x), sub)

\* C9 as stated: where a title was found, the remainder is the body with the first
\* occurrence of the cleaned title taken out, trimmed; later occurrences stay.
C9_OnlyFirstOccurrenceRemoved ==
    pc = "returned" =>
        \A k \in DOMAIN splits :
            splits[k].title_match
                => splits[k].remainder = Strip(ReplaceFirst(splits[k].body, splits[k].title))

----------------------------------------------------------------------------
(* C10 *)

\* every ARTICLE node of a tree of depth three at most
RECURSIVE ArticlesOf(_)
ArticlesOf(nodes) ==
    IF nodes = <<>> THEN <<>>
    ELSE (IF Head(nodes).type = "ARTICLE" THEN <<Head(nodes)>>
          ELSE ArticlesOf(Head(nodes).children)) \o ArticlesOf(Tail(nodes))

\* where the number and the backslashes of an article marker at m end
AfterNumber(t, m) == SkipTok(t, SkipTok(t, SkipWs(t, m + 1), "1"), "\\")

\* an article marker without period starts at m: the keyword, digits, then body text
MarkerWithoutPeriodAt(t, m) ==
    /\ MarkerAt(t, m, Dieu, {"1"})
    /\ At(t, AfterNumber(t, m)) \notin {".", "EOT"}

\* an article marker with its period starts at m: the keyword, maybe digits, one period at least
MarkerWithPeriodAt(t, m) == At(t, m) = "Dieu" /\ At(t, AfterNumber(t, m)) = "."

\* C10 as stated: when the text holds an article marker without period, followed by
\* body text, an ARTICLE node starts with it.
C10_MarkerWithoutPeriodAccepted ==
    (pc = "returned" /\ \E m \in DOMAIN content : MarkerWithoutPeriodAt(content, m))
        => \E i \in DOMAIN ArticlesOf(data) :
              MarkerWithoutPeriodAt(ArticlesOf(data)[i].content, 1)

\* C10, amended: the article matcher takes a marker as the start of an Article block only
\* with one period at least after the keyword, the optional digits and the optional
\* backslashes: every ARTICLE node starts with such a marker, and a marker without
\* period starts none.
C10_OnlyMarkerWithPeriodAccepted ==
    pc = "returned" =>
        \A i \in DOMAIN ArticlesOf(data) :
            /\ MarkerWithPeriodAt(ArticlesOf(data)[i].content, 1)
            /\ ~MarkerWithoutPeriodAt(ArticlesOf(data)[i].content, 1)

\* a text with an article marker without period has been parsed, and the marker's text
\* lies inside the ARTICLE node of the article before it
C10_Witness ==
    /\ pc = "returned"
    /\ \E m \in DOMAIN content : MarkerWithoutPeriodAt(content, m)
    /\ \E i \in DOMAIN ArticlesOf(data) :
          \E k \in DOMAIN ArticlesOf(data)[i].content :
              k > 1 /\ MarkerWithoutPeriodAt(ArticlesOf(data)[i].content, k)

----------------------------------------------------------------------------
(* C11 *)

\* the node of the result tree at a place
NodeAt(path) ==
    IF Len(path) = 1 THEN data[path[1]] ELSE data[path[1]].children[path[2]]

\* the body of a block has no title text: after whitespace it starts directly with an
\* article block, one more article block at least follows, and no section marker is in it
StartsWithArticles(body) ==
    /\ DieuAt(body, SkipWs(body, 1))
    /\ Len(dieu_findall(body)) >= 2
    /\ ~SectionMarkerIn(body)

\* a marker of an article (with its period) or of a section is in the text
ArticleOrSectionMarkerIn(t) ==
    \E m \in 1..Len(t) : MarkerWithPeriodAt(t, m) \/ MarkerAt(t, m, Muc, {"1"})

\* C11 as stated: for a CHAPTER or SECTION block whose body has no title text and starts
\* directly with an article marker, one more article following, the title is empty and every
\* article block of the body, the first included, is an ARTICLE child of the node; and no
\* title holds an article marker or a section marker.
C11_TitleTakesNoArticle ==
    pc = "returned" =>
        \A k \in DOMAIN splits :
            /\ (StartsWithArticles(splits[k].body) /\ ~TitleRecurs(splits[k]))
                  => /\ splits[k].title = <<>>
                     /\ AllOfKind(NodeAt(splits[k].at).children, "ARTICLE")
                     /\ Len(NodeAt(splits[k].at).children) = Len(dieu_findall(splits[k].body))
            /\ ~ArticleOrSectionMarkerIn(splits[k].title)

============================================================================
